---- MODULE Spec2Model ----
(***************************************************************************)
(* A model of node-red-contrib-plex-ws:                                    *)
(*   - PlexSocket (src/unnamed/part_000): the notification transport, its  *)
(*     socket lifecycle, heartbeat timers, reconnection and message        *)
(*     classification;                                                     *)
(*   - PlayingNode (src/nodes/playing.js): the playing-event processor     *)
(*     and its filter evaluation.                                          *)
(* The ws library's sockets and the JavaScript timers are the environment: *)
(* every socket event and every timer firing is an action that runs the    *)
(* handler the code registers for it.                                      *)
(***************************************************************************)
EXTENDS Integers, Sequences, FiniteSets, TLC

\* ------------------------------------------------------------------ bounds
MaxSockets == 2       \* socket objects alive (not yet closed) at once
MaxTimers == 2        \* timers pending at once
RetriesCap == 2       \* the retry counter saturates here (above FiniteMaxRetries)
MaxPending == 2       \* session fetches in flight at once
FiniteMaxRetries == 1 \* the finite reconnectMaxRetries configuration explored

\* ------------------------------------------------------- program constants
pingInterval == 10000
pingTimeout == 5000
reconnectInterval == 10000

VARIABLES
    phase,          \* "new": fields initialised, autoConnect not yet evaluated; "ready"
    autoConnect,    \* configuration
    addressValid,   \* configuration: whether new WebSocket(address) can be constructed
    maxRetries,     \* configuration reconnectMaxRetries: [finite, n]
    shouldClose,    \* this.shouldClose
    retries,        \* this.retries
    socket,         \* this.socket: "null", or the readyState of the socket it refers to
    pinger,         \* this.pinger: "null", or the handle of a "pending" timer, or of
                    \* one that fired or was cleared ("stale")
    awaitPong,      \* this.awaitPong, likewise
    orphans,        \* pending timers no handle refers to any more, by kind
    leaked,         \* the sockets still alive that this.socket no longer refers to,
                    \* their handlers attached: how many, per readyState
    op,             \* the operation or callback that ran last
    frame,          \* the data it was called with, when it is the message handler
    out,            \* what it did, in order: emits, socket calls, timers armed, throws
    args,           \* the arguments of its message, notification and playing emits
    filters,        \* PlayingNode: this.filters, sorted by the constructor
    evaluated,      \* the last call of matchesFilters: its session and its result
    store,          \* the session store: sessionKey -> session, or none
    pending,        \* the fetches in flight: how many, per playing event
    pop,            \* PlayingNode: the callback that ran last
    resolved,       \* the event it ran for, and the session its fetch resolved with
    pout            \* what it did, in order: send, warn, delete

pvars == <<filters, evaluated, store, pending, pop, resolved, pout>>

tvars == <<phase, autoConnect, addressValid, maxRetries, shouldClose, retries,
           socket, pinger, awaitPong, orphans, leaked, op, frame, out, args>>

\* ----------------------------------------------------------------- effects
NoEntry == [sessionKey |-> "", state |-> ""]
NoContainer == [type |-> "", hasList |-> FALSE, list |-> <<>>]
NoPayload == [t |-> "none", b |-> FALSE, n |-> 0, s |-> "",
              hasNC |-> FALSE, ncNull |-> FALSE, nc |-> NoContainer]

NoFrame == [wellFormed |-> FALSE, value |-> NoPayload]

\* An effect: its kind and, for a timer, the delay.
Eff(k) == [k |-> k, n |-> 0]
EffN(k, n) == [k |-> k, n |-> n]
\* The argument of an emit: a payload, a container, or a state and its entry.
ArgPayload(p) == [k |-> "emit:message", payload |-> p, state |-> "", entry |-> NoEntry]
ArgContainer(c) ==
    [k |-> "emit:notification",
     payload |-> [NoPayload EXCEPT !.t = "obj", !.hasNC = TRUE, !.nc = c],
     state |-> "", entry |-> NoEntry]
ArgPlaying(state, e) ==
    [k |-> "emit:playing", payload |-> NoPayload, state |-> state, entry |-> e]

Count(seq, k) == Cardinality({i \in 1..Len(seq) : seq[i].k = k})
Has(seq, k) == \E i \in 1..Len(seq) : seq[i].k = k
Throws == {"throw:TypeError", "throw:Error", "throw:unhandled-error"}
Threw(seq) == \E i \in 1..Len(seq) : seq[i].k \in Throws

\* ------------------------------------------------------------ configuration
\* reconnectMaxRetries: a finite number, or Infinity (the default).
RetryLimits == {[finite |-> TRUE, n |-> FiniteMaxRetries], [finite |-> FALSE, n |-> 0]}

\* retries >= reconnectMaxRetries, where the limit may be Infinity
ReachedMax(r, limit) == limit.finite /\ r >= limit.n

Min(a, b) == IF a <= b THEN a ELSE b

\* A timer's delay, by the kind of callback it was armed with.
Delay(kind) ==
    CASE kind = "pinger" -> pingInterval
      [] kind = "awaitPong" -> pingTimeout
      [] kind = "reconnect" -> reconnectInterval
      [] OTHER -> 0

\* ------------------------------------------------- the object, as a record
\* Handlers are operators from the object's state to its state, so that a
\* handler that calls another (onOpen -> ping, connect -> onClose) composes.
\* ovf marks a run that needed more timer or socket objects than the bounds
\* allow; such a step is not taken.
Cur ==
    [shouldClose |-> shouldClose, retries |-> retries, socket |-> socket,
     pinger |-> pinger, awaitPong |-> awaitPong, orphans |-> orphans,
     leaked |-> leaked, frame |-> NoFrame, out |-> <<>>, args |-> <<>>,
     ovf |-> FALSE]

Emit(st, e) == [st EXCEPT !.out = Append(@, e)]
EmitArg(st, a) == [st EXCEPT !.out = Append(@, Eff(a.k)), !.args = Append(@, a)]

\* ------------------------------------------------------------------ timers
\* The timers pending: the two the handles may refer to, and the orphans.
PendingOf(st, kind) ==
    st.orphans[kind]
      + (IF kind = "pinger" /\ st.pinger = "pending" THEN 1 ELSE 0)
      + (IF kind = "awaitPong" /\ st.awaitPong = "pending" THEN 1 ELSE 0)

PendingTimers(st) ==
    PendingOf(st, "pinger") + PendingOf(st, "awaitPong") + PendingOf(st, "reconnect")

\* handle = setTimeout(callback, delay): a new pending timer. The timer the
\* handle referred to, if still pending, stays pending with no handle to it.
SetTimeout(st, kind) ==
    LET old == CASE kind = "pinger" -> st.pinger
                 [] kind = "awaitPong" -> st.awaitPong
                 [] OTHER -> "pending"
        st1 == IF old = "pending"
               THEN [st EXCEPT !.orphans[kind] = @ + 1] ELSE st
        st2 == CASE kind = "pinger" -> [st1 EXCEPT !.pinger = "pending"]
                 [] kind = "awaitPong" -> [st1 EXCEPT !.awaitPong = "pending"]
                 [] OTHER -> st1
    IN IF PendingTimers(st) >= MaxTimers THEN [st EXCEPT !.ovf = TRUE]
       ELSE Emit(st2, EffN("setTimeout:" \o kind, Delay(kind)))

\* clearTimeout(handle): cancels the timer if it is pending, else nothing.
\* The handle keeps its value.
ClearTimeout(handle) == IF handle = "pending" THEN "stale" ELSE handle

\* ----------------------------------------------------- the ws socket object
LiveStates == {"CONNECTING", "OPEN", "CLOSING"}

\* The sockets alive: the one this.socket refers to, and the leaked ones.
LiveCount(st) ==
    (IF st.socket \in LiveStates THEN 1 ELSE 0)
      + st.leaked["CONNECTING"] + st.leaked["OPEN"] + st.leaked["CLOSING"]

\* this.socket is assigned (a new socket, or null): the socket it referred
\* to, if still alive, lives on with its handlers attached.
Drop(st) ==
    IF st.socket \in LiveStates THEN [st EXCEPT !.leaked[st.socket] = @ + 1] ELSE st

\* WebSocket.close(): starts the closing handshake of an open socket, aborts
\* the handshake of a connecting one; nothing on a closing or closed one.
WsClose(st) ==
    LET st1 == Emit(st, Eff("ws.close")) IN
    IF st.socket \in {"CONNECTING", "OPEN"} THEN [st1 EXCEPT !.socket = "CLOSING"] ELSE st1

\* WebSocket.terminate(): destroys the connection; the close event follows.
WsTerminate(st) ==
    LET st1 == Emit(st, Eff("ws.terminate")) IN
    IF st.socket \in {"CONNECTING", "OPEN"} THEN [st1 EXCEPT !.socket = "CLOSING"] ELSE st1

\* ------------------------------------------------------ PlexSocket methods
isReady(st) == st.socket # "null" /\ st.socket = "OPEN" /\ ~st.shouldClose

ping(st) ==
    IF isReady(st)
    THEN SetTimeout(Emit(st, Eff("ws.ping")), "awaitPong")
    ELSE st

\* The callback of the awaitPong timer, without the terminate.
pongTimeoutKeepsSocket(st) == Emit(st, Eff("emit:pong-timeout"))

\* The callback of the awaitPong timer.
pongTimeout(st) ==
    LET st1 == Emit(st, Eff("emit:pong-timeout")) IN
    IF st1.socket = "null" THEN Emit(st1, Eff("throw:TypeError"))
    ELSE WsTerminate(st1)

onOpen(st) == ping(Emit([st EXCEPT !.retries = 0], Eff("emit:open")))

\* onClose without the test of shouldClose: reconnects after any close.
onCloseReconnectsAlways(st) ==
    LET st1 == IF st.pinger # "null" THEN [st EXCEPT !.pinger = "null"] ELSE st
        st2 == IF st1.awaitPong # "null" THEN [st1 EXCEPT !.awaitPong = "null"] ELSE st1
    IN SetTimeout(st2, "reconnect")

onClose(st) ==
    LET st1 == IF st.pinger # "null" THEN [st EXCEPT !.pinger = "null"] ELSE st
        st2 == IF st1.awaitPong # "null" THEN [st1 EXCEPT !.awaitPong = "null"] ELSE st1
    IN IF ~st2.shouldClose THEN SetTimeout(st2, "reconnect")
       ELSE Emit(st2, Eff("emit:close"))

\* connect() that takes back an earlier close().
connectResetsShouldClose(st, limit, valid) ==
    LET st0 == [st EXCEPT !.shouldClose = FALSE]
        st1 == IF ReachedMax(st0.retries, limit)
               THEN Emit(st0, Eff("emit:reconnect-max-retries")) ELSE st0
        st2 == [st1 EXCEPT !.retries = Min(st0.retries + 1, RetriesCap)]
    IN IF valid
       THEN IF LiveCount(st2) >= MaxSockets THEN [st2 EXCEPT !.ovf = TRUE]
            ELSE Emit([Drop(st2) EXCEPT !.socket = "CONNECTING"], Eff("new WebSocket"))
       ELSE Emit(onClose(st2), Eff("throw:Error"))

connect(st, limit, valid) ==
    LET st1 == IF ReachedMax(st.retries, limit)
               THEN Emit(st, Eff("emit:reconnect-max-retries")) ELSE st
        st2 == [st1 EXCEPT !.retries = Min(st.retries + 1, RetriesCap)]
    IN IF valid
       THEN IF LiveCount(st2) >= MaxSockets THEN [st2 EXCEPT !.ovf = TRUE]
            ELSE Emit([Drop(st2) EXCEPT !.socket = "CONNECTING"], Eff("new WebSocket"))
       ELSE Emit(onClose(st2), Eff("throw:Error"))

close(st) ==
    LET st1 == [st EXCEPT !.shouldClose = TRUE] IN
    IF st1.socket = "null" THEN Emit(st1, Eff("throw:TypeError"))
    ELSE [Drop(WsClose(st1)) EXCEPT !.socket = "null"]

onPing(st) ==
    IF isReady(st) THEN Emit(st, Eff("ws.pong")) ELSE st

onPong(st) ==
    LET st1 == IF st.awaitPong # "null"
               THEN [st EXCEPT !.awaitPong = ClearTimeout(st.awaitPong)] ELSE st
    IN Emit(SetTimeout(st1, "pinger"), Eff("emit:pong"))

\* EventEmitter.emit('error', err): throws err when nobody listens.
EmitError(st, listened) ==
    IF listened THEN Emit(st, Eff("emit:error"))
    ELSE Emit(Emit(st, Eff("emit:error")), Eff("throw:unhandled-error"))

onError(st, listened) == EmitError(st, listened)

onUnexpectedResponse(st, status) ==
    IF status = 401 THEN Emit(st, Eff("emit:unauthorized"))
    ELSE Emit(st, Eff("emit:unexpected-response"))

\* ---------------------------------------------------------------- messages
\* Parsed payloads: JSON values, of which an object may hold a
\* NotificationContainer (absent, null, or a container with a type and,
\* possibly, a PlaySessionStateNotification list).
PNull == [NoPayload EXCEPT !.t = "null"]
PBool(b) == [NoPayload EXCEPT !.t = "bool", !.b = b]
PNum(n) == [NoPayload EXCEPT !.t = "num", !.n = n]
PStr(x) == [NoPayload EXCEPT !.t = "str", !.s = x]
PObj == [NoPayload EXCEPT !.t = "obj"]
PObjNullNC == [NoPayload EXCEPT !.t = "obj", !.hasNC = TRUE, !.ncNull = TRUE]
PObjNC(c) == [NoPayload EXCEPT !.t = "obj", !.hasNC = TRUE, !.nc = c]

Container(type) == [NoContainer EXCEPT !.type = type]
ContainerList(type, list) == [type |-> type, hasList |-> TRUE, list |-> list]

Entry1 == [sessionKey |-> "k1", state |-> "playing"]
Entry2 == [sessionKey |-> "k2", state |-> "stopped"]

Containers ==
    {Container("timeline"), ContainerList("timeline", <<Entry1>>),
     Container("playing"), ContainerList("playing", <<>>),
     ContainerList("playing", <<Entry1>>), ContainerList("playing", <<Entry1, Entry2>>),
     ContainerList("playing", <<Entry2, Entry1>>)}

Payloads ==
    {PNull, PBool(FALSE), PBool(TRUE), PNum(0), PNum(5), PStr(""), PStr("x"),
     PObj, PObjNullNC} \cup {PObjNC(c) : c \in Containers}

\* A frame's data: text that is JSON for a value, or text that is not JSON.
Frames == {[wellFormed |-> TRUE, value |-> v] : v \in Payloads}
            \cup {[wellFormed |-> FALSE, value |-> NoPayload]}

\* JavaScript truthiness of a parsed payload
Truthy(p) ==
    CASE p.t = "null" -> FALSE
      [] p.t = "bool" -> p.b
      [] p.t = "num" -> p.n # 0
      [] p.t = "str" -> p.s # ""
      [] p.t = "obj" -> TRUE
      [] OTHER -> FALSE

\* parseData(data): the parsed value; when JSON.parse throws, what
\* this.emit('error', err) returns (true: the error was listened to), or the
\* throw of an unlistened error. [st, threw, value]
parseData(st, data, listened) ==
    IF data.wellFormed THEN [st |-> st, threw |-> FALSE, value |-> data.value]
    ELSE [st |-> EmitError(st, listened), threw |-> ~listened, value |-> PBool(TRUE)]

\* notification(payload): !!payload && payload['NotificationContainer'],
\* as [truthy, container]
notification(payload) ==
    IF Truthy(payload) /\ payload.t = "obj" /\ payload.hasNC /\ ~payload.ncNull
    THEN [truthy |-> TRUE, container |-> payload.nc]
    ELSE [truthy |-> FALSE, container |-> NoContainer]

RECURSIVE EmitPlayingFrom(_, _, _)
EmitPlayingFrom(st, list, i) ==
    IF i > Len(list) THEN st
    ELSE EmitPlayingFrom(EmitArg(st, ArgPlaying(list[i].state, list[i])), list, i + 1)

\* onPlaying testing the list but not its length.
onPlayingIgnoresLength(st, notif, listened) ==
    IF notif.hasList
    THEN EmitPlayingFrom(st, notif.list, 1)
    ELSE EmitError(st, listened)

onPlaying(st, notif, listened) ==
    IF notif.hasList /\ Len(notif.list) # 0
    THEN EmitPlayingFrom(st, notif.list, 1)
    ELSE EmitError(st, listened)

onNotification(st, notif, listened) ==
    LET st1 == EmitArg(st, ArgContainer(notif)) IN
    IF notif.type = "playing" THEN onPlaying(st1, notif, listened) ELSE st1

onMessage(st, data, listened) ==
    LET parsed == parseData(st, data, listened) IN
    IF parsed.threw THEN parsed.st
    ELSE IF Truthy(parsed.value)
         THEN LET st1 == EmitArg(parsed.st, ArgPayload(parsed.value))
                  notif == notification(parsed.value)
              IN IF notif.truthy THEN onNotification(st1, notif.container, listened)
                 ELSE st1
         ELSE parsed.st

\* ------------------------------------------------------- JavaScript values
\* The values a session field or a filter literal may hold. A string is the
\* sequence of its characters; numbers are integers, or NaN.
Undef == [t |-> "undef", b |-> FALSE, n |-> 0, s |-> <<>>]
Null == [t |-> "null", b |-> FALSE, n |-> 0, s |-> <<>>]
Bool(b) == [t |-> "bool", b |-> b, n |-> 0, s |-> <<>>]
Num(n) == [t |-> "num", b |-> FALSE, n |-> n, s |-> <<>>]
NaN == [t |-> "nan", b |-> FALSE, n |-> 0, s |-> <<>>]
Str(chars) == [t |-> "str", b |-> FALSE, n |-> 0, s |-> chars]
Obj == [t |-> "obj", b |-> FALSE, n |-> 0, s |-> <<>>]

Digits == <<"0", "1", "2", "3", "4", "5", "6", "7", "8", "9">>
DigitOf(c) == (CHOOSE i \in 1..10 : Digits[i] = c) - 1
IsDigit(c) == \E i \in 1..10 : Digits[i] = c

\* The UTF-16 code unit of each character the model's strings use.
CharCode ==
    (" " :> 32) @@ ("-" :> 45) @@ ("[" :> 91) @@ ("]" :> 93) @@
    ("0" :> 48) @@ ("1" :> 49) @@ ("2" :> 50) @@ ("3" :> 51) @@ ("4" :> 52) @@
    ("5" :> 53) @@ ("6" :> 54) @@ ("7" :> 55) @@ ("8" :> 56) @@ ("9" :> 57) @@
    ("N" :> 78) @@ ("O" :> 79) @@
    ("a" :> 97) @@ ("b" :> 98) @@ ("c" :> 99) @@ ("d" :> 100) @@ ("e" :> 101) @@
    ("f" :> 102) @@ ("g" :> 103) @@ ("i" :> 105) @@ ("j" :> 106) @@ ("l" :> 108) @@
    ("n" :> 110) @@ ("o" :> 111) @@ ("p" :> 112) @@ ("r" :> 114) @@ ("s" :> 115) @@
    ("t" :> 116) @@ ("u" :> 117) @@ ("y" :> 121)

RECURSIVE NatDigits(_)
NatDigits(n) == IF n < 10 THEN <<Digits[n + 1]>>
                ELSE NatDigits(n \div 10) \o <<Digits[(n % 10) + 1]>>

\* String(v)
JsString(v) ==
    CASE v.t = "undef" -> <<"u", "n", "d", "e", "f", "i", "n", "e", "d">>
      [] v.t = "null" -> <<"n", "u", "l", "l">>
      [] v.t = "bool" -> IF v.b THEN <<"t", "r", "u", "e">>
                         ELSE <<"f", "a", "l", "s", "e">>
      [] v.t = "num" -> IF v.n < 0 THEN <<"-">> \o NatDigits(-v.n) ELSE NatDigits(v.n)
      [] v.t = "nan" -> <<"N", "a", "N">>
      [] v.t = "str" -> v.s
      [] OTHER -> <<"[", "o", "b", "j", "e", "c", "t", " ",
                    "O", "b", "j", "e", "c", "t", "]">>

RECURSIVE TrimLeft(_)
TrimLeft(cs) == IF cs # <<>> /\ Head(cs) = " " THEN TrimLeft(Tail(cs)) ELSE cs
RECURSIVE TrimRight(_)
TrimRight(cs) == IF cs # <<>> /\ cs[Len(cs)] = " "
                 THEN TrimRight(SubSeq(cs, 1, Len(cs) - 1)) ELSE cs

RECURSIVE DigitsValue(_)
DigitsValue(cs) == IF cs = <<>> THEN 0
                   ELSE 10 * DigitsValue(SubSeq(cs, 1, Len(cs) - 1)) + DigitOf(cs[Len(cs)])

\* Number(string): white space trimmed; the empty string is 0; an optionally
\* signed run of digits is its value; any other text is NaN. (Fractions,
\* exponents, hexadecimal and Infinity are not among the model's strings.)
StringToNumber(chars) ==
    LET cs == TrimRight(TrimLeft(chars))
        signed == cs # <<>> /\ Head(cs) = "-"
        ds == IF signed THEN Tail(cs) ELSE cs
    IN IF cs = <<>> THEN Num(0)
       ELSE IF ds # <<>> /\ \A i \in 1..Len(ds) : IsDigit(ds[i])
            THEN Num(IF signed THEN -DigitsValue(ds) ELSE DigitsValue(ds))
            ELSE NaN

\* Number(v)
JsNumber(v) ==
    CASE v.t = "undef" -> NaN
      [] v.t = "null" -> Num(0)
      [] v.t = "bool" -> Num(IF v.b THEN 1 ELSE 0)
      [] v.t = "num" -> v
      [] v.t = "nan" -> NaN
      [] v.t = "str" -> StringToNumber(v.s)
      [] OTHER -> NaN

\* Boolean(v)
JsBoolean(v) ==
    CASE v.t = "bool" -> v.b
      [] v.t = "num" -> v.n # 0
      [] v.t = "str" -> v.s # <<>>
      [] v.t = "obj" -> TRUE
      [] OTHER -> FALSE

\* An object operand of == or < becomes the string "[object Object]".
ToPrimitive(v) == IF v.t = "obj" THEN Str(JsString(v)) ELSE v

\* x === y, for primitives and for two distinct objects
StrictEquals(x, y) == x.t = y.t /\ x.t \notin {"nan", "obj"} /\ x = y

\* x == y. The objects compared are never the same object: one comes from the
\* configuration, the other from the session.
LooseEquals(x, y) ==
    LET IsNullish(v) == v.t \in {"undef", "null"}
        IsNumeric(v) == v.t \in {"num", "nan"}
        NumEq(a, b) == a.t = "num" /\ b.t = "num" /\ a.n = b.n
        \* both operands primitive, neither nullish, neither boolean
        PrimEq(a, b) ==
            IF a.t = "str" /\ b.t = "str" THEN a.s = b.s
            ELSE NumEq(JsNumber(a), JsNumber(b))
        Unbool(v) == IF v.t = "bool" THEN JsNumber(v) ELSE v
    IN IF IsNullish(x) \/ IsNullish(y) THEN IsNullish(x) /\ IsNullish(y)
       ELSE IF x.t = "obj" /\ y.t = "obj" THEN FALSE
       ELSE IF x.t = "bool" /\ y.t = "bool" THEN x.b = y.b
       ELSE PrimEq(ToPrimitive(Unbool(x)), ToPrimitive(Unbool(y)))

RECURSIVE StrLess(_, _)
StrLess(a, b) ==
    IF b = <<>> THEN FALSE
    ELSE IF a = <<>> THEN TRUE
    ELSE IF Head(a) = Head(b) THEN StrLess(Tail(a), Tail(b))
    ELSE CharCode[Head(a)] < CharCode[Head(b)]

\* The abstract relational comparison x < y: "true", "false" or "undefined"
\* (an operand is NaN).
Less(x, y) ==
    LET px == ToPrimitive(x)
        py == ToPrimitive(y)
        nx == JsNumber(px)
        ny == JsNumber(py)
    IN IF px.t = "str" /\ py.t = "str"
       THEN (IF StrLess(px.s, py.s) THEN "true" ELSE "false")
       ELSE IF nx.t = "nan" \/ ny.t = "nan" THEN "undefined"
       ELSE IF nx.n < ny.n THEN "true" ELSE "false"

\* The comparison with its operands exchanged.
CompareSwapped(operator, x, y) ==
    CASE operator = "eq" -> LooseEquals(y, x)
      [] operator = "neq" -> ~LooseEquals(y, x)
      [] operator = "lt" -> Less(y, x) = "true"
      [] operator = "lte" -> Less(x, y) = "false"
      [] operator = "gt" -> Less(x, y) = "true"
      [] operator = "gte" -> Less(y, x) = "false"
      [] OTHER -> FALSE

\* filterValue <operator> sessionValue
Compare(operator, x, y) ==
    CASE operator = "eq" -> LooseEquals(x, y)
      [] operator = "neq" -> ~LooseEquals(x, y)
      [] operator = "lt" -> Less(x, y) = "true"
      [] operator = "lte" -> Less(y, x) = "false"
      [] operator = "gt" -> Less(y, x) = "true"
      [] operator = "gte" -> Less(x, y) = "false"
      [] OTHER -> FALSE

\* The switch on filter.valueType
Coerce(valueType, v) ==
    CASE valueType = "str" -> Str(JsString(v))
      [] valueType = "num" -> JsNumber(v)
      [] valueType = "bool" -> Bool(JsBoolean(v))
      [] OTHER -> v

\* ------------------------------------------------------------ PlayingNode
\* String.prototype.split('.') of a key given as its name chunks and dots:
\* the parts between the dots, empty where two dots meet or the key is empty.
RECURSIVE SplitFrom(_, _, _)
SplitFrom(tokens, i, parts) ==
    IF i > Len(tokens) THEN parts
    ELSE IF tokens[i] = "."
         THEN SplitFrom(tokens, i + 1, Append(parts, ""))
         ELSE SplitFrom(tokens, i + 1,
                        [parts EXCEPT ![Len(parts)] = @ \o tokens[i]])

Split(tokens) == SplitFrom(tokens, 1, <<"">>)

\* The playback states, as JavaScript strings
PLAYING == Str(<<"p", "l", "a", "y", "i", "n", "g">>)
PAUSED == Str(<<"p", "a", "u", "s", "e", "d">>)
STOPPED == Str(<<"s", "t", "o", "p", "p", "e", "d">>)

\* The fields of the sessions the store may hand out, by path.
ShapeFields(shape) ==
    CASE shape = "player" ->
           (<<"Player">> :> Obj) @@ (<<"Player", "state">> :> PLAYING)
             @@ (<<"viewOffset">> :> Num(5))
      [] shape = "bare" -> (<<"viewOffset">> :> Str(<<"a", "b", "c">>))
      [] shape = "blank" -> (<<"viewOffset">> :> Str(<<>>))
      [] shape = "flag" -> (<<"viewOffset">> :> Bool(TRUE))
      [] OTHER -> (<<"viewOffset">> :> Null)

NoSession == [present |-> FALSE, shape |-> "", prevState |-> Undef]
NewSession(shape) == [present |-> TRUE, shape |-> shape, prevState |-> Undef]

\* object[key], for the session and the values inside it. A primitive has no
\* property of the names the filters use.
GetProp(session, cur, key) ==
    LET path == Append(cur.path, key) IN
    IF cur.v.t # "obj" THEN [v |-> Undef, path |-> path]
    ELSE IF path = <<"prevState">> THEN [v |-> session.prevState, path |-> path]
    ELSE IF path \in DOMAIN ShapeFields(session.shape)
         THEN [v |-> ShapeFields(session.shape)[path], path |-> path]
         ELSE [v |-> Undef, path |-> path]

\* keyParts.forEach(key => sessionValue = sessionValue[key]): reading a
\* property of undefined or null throws a TypeError.
RECURSIVE WalkPath(_, _, _, _)
WalkPath(session, cur, parts, i) ==
    IF i > Len(parts) THEN [threw |-> FALSE, v |-> cur.v]
    ELSE IF cur.v.t \in {"undef", "null"} THEN [threw |-> TRUE, v |-> Undef]
    ELSE WalkPath(session, GetProp(session, cur, parts[i]), parts, i + 1)

\* One filter's comparison: [threw, comparison]
EvalFilter(session, filter) ==
    LET walked == WalkPath(session, [v |-> Obj, path |-> <<>>], Split(filter.key), 1)
        sessionValue == Coerce(filter.valueType, walked.v)
        filterValue == Coerce(filter.valueType, filter.value)
    IN [threw |-> walked.threw,
        comparison |-> ~walked.threw /\ Compare(filter.operator, filterValue, sessionValue)]

RECURSIVE MatchFrom(_, _, _, _)
MatchFrom(session, fs, i, match) ==
    IF i > Len(fs) THEN [threw |-> FALSE, match |-> match]
    ELSE LET r == EvalFilter(session, fs[i]) IN
         IF r.threw THEN [threw |-> TRUE, match |-> FALSE]
         ELSE MatchFrom(session, fs, i + 1, match /\ r.comparison)

\* matchesFilters(session): [threw, match]
matchesFilters(session, fs) == MatchFrom(session, fs, 1, TRUE)

\* this.filters.sort(by idx): a stable sort
RECURSIVE InsertByIdx(_, _)
InsertByIdx(sorted, f) ==
    IF sorted = <<>> THEN <<f>>
    ELSE IF sorted[Len(sorted)].idx > f.idx
         THEN Append(InsertByIdx(SubSeq(sorted, 1, Len(sorted) - 1), f),
                     sorted[Len(sorted)])
         ELSE Append(sorted, f)

RECURSIVE SortByIdx(_)
SortByIdx(fs) ==
    IF fs = <<>> THEN <<>>
    ELSE InsertByIdx(SortByIdx(SubSeq(fs, 1, Len(fs) - 1)), fs[Len(fs)])

\* Filter configurations, as the node's configuration lists them.
Filter(key, value, valueType, operator, idx) ==
    [key |-> key, value |-> value, valueType |-> valueType, operator |-> operator,
     idx |-> idx]

PlayerStateIsPlaying == Filter(<<"Player", ".", "state">>, PLAYING, "str", "eq", 1)
OffsetAboveThree == Filter(<<"viewOffset">>, Str(<<"3">>), "num", "lt", 0)

FilterConfigs ==
    {<<>>, <<PlayerStateIsPlaying>>, <<OffsetAboveThree>>,
     <<PlayerStateIsPlaying, OffsetAboveThree>>}

SessionKeys == {"k1", "k2"}
Shapes == {"player", "bare"}
PlayingEvents == [state : {PLAYING, PAUSED, STOPPED}, sessionKey : SessionKeys]
NoEvent == [state |-> Undef, sessionKey |-> ""]
NoResolved ==
    [event |-> NoEvent, outcome |-> "", session |-> NoSession, after |-> NoSession]

NoEvaluated == [called |-> FALSE, session |-> NoSession, threw |-> FALSE, match |-> FALSE]

PEff(k, key) == [k |-> k, key |-> key]

\* The fetch continuation with the dedupe test left out.
thenCallbackNoDedupe(st, fs, e, session) ==
    LET changed == session.present
        m == matchesFilters(session, fs)
    IN IF changed /\ m.threw
       THEN [store |-> st, session |-> session, out |-> <<>>, threw |-> TRUE]
       ELSE LET out1 == IF changed /\ m.match
                        THEN <<PEff("send", e.sessionKey)>> ELSE <<>>
                st1 == IF changed
                       THEN [st EXCEPT ![e.sessionKey].prevState = e.state] ELSE st
                session1 == IF changed
                            THEN [session EXCEPT !.prevState = e.state] ELSE session
            IN IF StrictEquals(e.state, STOPPED)
               THEN [store |-> [st1 EXCEPT ![e.sessionKey] = NoSession],
                     session |-> session1,
                     out |-> Append(out1, PEff("delete", e.sessionKey)),
                     threw |-> FALSE]
               ELSE [store |-> st1, session |-> session1, out |-> out1,
                     threw |-> FALSE]

\* sessions.fetch(sessionKey).then(session => ...): on the store st, for the
\* event e, with session the store's object for the key (or null):
\* [store, session, out, threw], session being that object afterwards
thenCallback(st, fs, e, session) ==
    LET changed == session.present /\ ~StrictEquals(session.prevState, e.state)
        m == matchesFilters(session, fs)
    IN IF changed /\ m.threw
       THEN [store |-> st, session |-> session, out |-> <<>>, threw |-> TRUE]
       ELSE LET out1 == IF changed /\ m.match
                        THEN <<PEff("send", e.sessionKey)>> ELSE <<>>
                st1 == IF changed
                       THEN [st EXCEPT ![e.sessionKey].prevState = e.state] ELSE st
                session1 == IF changed
                            THEN [session EXCEPT !.prevState = e.state] ELSE session
            IN IF StrictEquals(e.state, STOPPED)
               THEN [store |-> [st1 EXCEPT ![e.sessionKey] = NoSession],
                     session |-> session1,
                     out |-> Append(out1, PEff("delete", e.sessionKey)),
                     threw |-> FALSE]
               ELSE [store |-> st1, session |-> session1, out |-> out1,
                     threw |-> FALSE]

\* A catch that reports nothing.
catchCallbackSilent(r, e) == r

\* .catch(reason => this.warn(...)): after a rejected fetch, and after a
\* continuation that threw.
catchCallback(r, e) ==
    IF r.threw THEN [r EXCEPT !.out = Append(@, PEff("warn", e.sessionKey))] ELSE r

PendingCount == LET RECURSIVE Sum(_)
                    Sum(S) == IF S = {} THEN 0
                              ELSE LET x == CHOOSE y \in S : TRUE
                                   IN pending[x] + Sum(S \ {x})
                IN Sum(PlayingEvents)

PIdle ==
    /\ filters = <<>>
    /\ evaluated = NoEvaluated
    /\ store = [k \in SessionKeys |-> NoSession]
    /\ pending = [e \in PlayingEvents |-> 0]
    /\ pop = "init"
    /\ resolved = NoResolved
    /\ pout = <<>>

PInit ==
    /\ filters \in {SortByIdx(c) : c \in FilterConfigs}
    /\ evaluated = NoEvaluated
    /\ store = [k \in SessionKeys |-> NoSession]
    /\ pending = [e \in PlayingEvents |-> 0]
    /\ pop = "init"
    /\ resolved = NoResolved
    /\ pout = <<>>

\* The transport emits playing(state, notification): the fetch starts.
OnPlayingEvent(e) ==
    /\ PendingCount < MaxPending
    /\ pending' = [pending EXCEPT ![e] = @ + 1]
    /\ pop' = "playing"
    /\ resolved' = NoResolved
    /\ pout' = <<>>
    /\ UNCHANGED <<filters, evaluated, store>>
    /\ UNCHANGED tvars

Settle(e, outcome, session, r) ==
    /\ pending' = [pending EXCEPT ![e] = @ - 1]
    /\ pop' = "settled"
    /\ resolved' = [event |-> e, outcome |-> outcome, session |-> session,
                    after |-> r.session]
    /\ store' = r.store
    /\ pout' = r.out
    /\ UNCHANGED <<filters, evaluated>>
    /\ UNCHANGED tvars

\* The store rejects the fetch.
FetchRejects(e) ==
    /\ pending[e] > 0
    /\ Settle(e, "rejected", NoSession,
              catchCallback([store |-> store, session |-> NoSession, out |-> <<>>,
                             threw |-> TRUE], e))

\* The store knows no such session: the fetch resolves with null.
FetchResolvesNull(e) ==
    /\ pending[e] > 0
    /\ Settle(e, "null", NoSession,
              catchCallback(thenCallback(store, filters, e, NoSession), e))

\* The fetch resolves with the store's session: the one it holds for the key,
\* or one it has just got from the server and holds from now on.
FetchResolves(e) ==
    /\ pending[e] > 0
    /\ \E shape \in Shapes :
          LET st == IF store[e.sessionKey].present THEN store
                    ELSE [store EXCEPT ![e.sessionKey] = NewSession(shape)]
          IN /\ (store[e.sessionKey].present => shape = store[e.sessionKey].shape)
             /\ Settle(e, "session", st[e.sessionKey],
                       catchCallback(thenCallback(st, filters, e, st[e.sessionKey]), e))

\* ------------------------------------------------- matchesFilters, alone
\* The filters a configuration may list: every valueType and operator, over
\* a top-level field, a nested one and one no session has.
FilterKeys == {<<"viewOffset">>, <<"Player", ".", "state">>, <<"title">>}
FilterValues == {Num(0), Str(<<"3">>), PLAYING}
ValueTypes == {"str", "num", "bool"}
Operators == {"eq", "neq", "lt", "lte", "gt", "gte"}

FilterPool ==
    {Filter(k, v, vt, o, 0) :
        k \in FilterKeys, v \in FilterValues, vt \in ValueTypes, o \in Operators}

\* The filters listed next to another one.
SecondPool ==
    {f \in FilterPool : f.operator \in {"eq", "lt"} /\ f.value # Num(0)}

\* config.filters: none, one, or two in either order of their idx.
FilterLists ==
    {<<>>} \cup {<<f>> : f \in FilterPool}
      \cup {<<[f EXCEPT !.idx = i], [g EXCEPT !.idx = 1 - i]>> :
               f \in FilterPool, g \in SecondPool, i \in {0, 1}}

\* The sessions matchesFilters is called with.
EvalShapes == Shapes \cup {"blank", "flag", "null"}

\* this.filters = config.filters || []
FInit ==
    /\ filters \in FilterLists
    /\ evaluated = NoEvaluated
    /\ store = [k \in SessionKeys |-> NoSession]
    /\ pending = [e \in PlayingEvents |-> 0]
    /\ pop = "config"
    /\ resolved = NoResolved
    /\ pout = <<>>

\* this.filters.sort(...)
SortFilters ==
    /\ pop = "config"
    /\ pop' = "constructor"
    /\ filters' = SortByIdx(filters)
    /\ UNCHANGED <<evaluated, store, pending, resolved, pout>>
    /\ UNCHANGED tvars

\* this.matchesFilters(session)
Evaluate(session) ==
    /\ pop = "constructor"
    /\ pop' = "matchesFilters"
    /\ LET r == matchesFilters(session, filters)
       IN evaluated' = [called |-> TRUE, session |-> session,
                        threw |-> r.threw, match |-> r.match]
    /\ UNCHANGED <<filters, store, pending, resolved, pout>>
    /\ UNCHANGED tvars

FNext ==
    \/ SortFilters
    \/ \E shape \in EvalShapes : Evaluate(NewSession(shape))

PNext ==
    \/ \E e \in PlayingEvents : OnPlayingEvent(e)
    \/ \E e \in PlayingEvents : FetchRejects(e)
    \/ \E e \in PlayingEvents : FetchResolvesNull(e)
    \/ \E e \in PlayingEvents : FetchResolves(e)

\* ----------------------------------------------------------------- actions
Commit(st, name) ==
    /\ ~st.ovf
    /\ shouldClose' = st.shouldClose
    /\ retries' = st.retries
    /\ socket' = st.socket
    /\ pinger' = st.pinger
    /\ awaitPong' = st.awaitPong
    /\ orphans' = st.orphans
    /\ leaked' = st.leaked
    /\ out' = st.out
    /\ args' = st.args
    /\ op' = name
    /\ frame' = st.frame
    /\ UNCHANGED <<autoConnect, addressValid, maxRetries>>
    /\ UNCHANGED pvars

TInit ==
    /\ phase = "new"
    /\ autoConnect \in BOOLEAN
    /\ addressValid \in BOOLEAN
    /\ maxRetries \in RetryLimits
    /\ shouldClose = FALSE
    /\ retries = 0
    /\ socket = "null"
    /\ pinger = "null"
    /\ awaitPong = "null"
    /\ orphans = [k \in {"pinger", "awaitPong", "reconnect"} |-> 0]
    /\ leaked = [r \in LiveStates |-> 0]
    /\ op = "init"
    /\ frame = NoFrame
    /\ out = <<>>
    /\ args = <<>>

\* The end of the constructor: if (this.autoConnect) this.connect()
Construct ==
    /\ phase = "new"
    /\ phase' = "ready"
    /\ Commit(IF autoConnect THEN connect(Cur, maxRetries, addressValid) ELSE Cur,
              "constructor")

\* The caller's connect()
Connect ==
    /\ phase = "ready"
    /\ UNCHANGED phase
    /\ Commit(connect(Cur, maxRetries, addressValid), "connect")

\* The caller's close()
Close ==
    /\ phase = "ready"
    /\ UNCHANGED phase
    /\ Commit(close(Cur), "close")

\* A socket in readyState r: the one this.socket refers to (current), or a
\* leaked one.
Alive(current, r) == IF current THEN socket = r ELSE leaked[r] > 0

\* The object's state once that socket has moved from readyState r to r2
\* ("CLOSED": the socket is gone).
Moved(current, r, r2) ==
    IF current THEN [Cur EXCEPT !.socket = r2]
    ELSE IF r2 = "CLOSED" THEN [Cur EXCEPT !.leaked[r] = @ - 1]
    ELSE [Cur EXCEPT !.leaked[r] = @ - 1, !.leaked[r2] = @ + 1]

\* The handshake of a socket completes: 'open'
SockOpen(current) ==
    /\ Alive(current, "CONNECTING")
    /\ UNCHANGED phase
    /\ Commit(onOpen(Moved(current, "CONNECTING", "OPEN")), "onOpen")

\* The server pings: 'ping'
SockPing(current) ==
    /\ Alive(current, "OPEN")
    /\ UNCHANGED phase
    /\ Commit(onPing(Cur), "onPing")

\* A pong frame arrives, asked for or not: 'pong'
SockPong(current) ==
    /\ Alive(current, "OPEN")
    /\ UNCHANGED phase
    /\ Commit(onPong(Cur), "onPong")

\* A data frame arrives: 'message'
SockMessage(current) ==
    /\ Alive(current, "OPEN")
    /\ UNCHANGED phase
    /\ \E data \in Frames, listened \in BOOLEAN :
          Commit(onMessage([Cur EXCEPT !.frame = data], data, listened), "onMessage")

\* 'error'
SockError(current) ==
    /\ \E r \in LiveStates : Alive(current, r)
    /\ UNCHANGED phase
    /\ \E listened \in BOOLEAN : Commit(onError(Cur, listened), "onError")

\* The server answers the handshake with something other than an upgrade.
SockUnexpectedResponse(current) ==
    /\ Alive(current, "CONNECTING")
    /\ UNCHANGED phase
    /\ \E status \in {401, 500} :
          Commit(onUnexpectedResponse(Cur, status), "onUnexpectedResponse")

\* A socket is gone, for whatever reason: 'close'
SockClose(current) ==
    /\ UNCHANGED phase
    /\ \E r \in LiveStates :
          /\ Alive(current, r)
          /\ Commit(onClose(Moved(current, r, "CLOSED")), "onClose")

\* A pinger timer fires, the one this.pinger refers to or an orphan: this.ping()
FirePinger(orphan) ==
    /\ IF orphan THEN orphans["pinger"] > 0 ELSE pinger = "pending"
    /\ UNCHANGED phase
    /\ Commit(ping(IF orphan THEN [Cur EXCEPT !.orphans["pinger"] = @ - 1]
                   ELSE [Cur EXCEPT !.pinger = "stale"]), "pinger")

\* An awaitPong timer fires.
FireAwaitPong(orphan) ==
    /\ IF orphan THEN orphans["awaitPong"] > 0 ELSE awaitPong = "pending"
    /\ UNCHANGED phase
    /\ Commit(pongTimeout(IF orphan THEN [Cur EXCEPT !.orphans["awaitPong"] = @ - 1]
                          ELSE [Cur EXCEPT !.awaitPong = "stale"]), "awaitPong")

\* A reconnect timer fires: this.connect()
FireReconnect ==
    /\ orphans["reconnect"] > 0
    /\ UNCHANGED phase
    /\ Commit(connect([Cur EXCEPT !.orphans["reconnect"] = @ - 1],
                      maxRetries, addressValid), "reconnect")

Lifecycle ==
    \/ Construct
    \/ Connect
    \/ Close
    \/ \E current \in BOOLEAN : SockOpen(current)
    \/ \E current \in BOOLEAN : SockPing(current)
    \/ \E current \in BOOLEAN : SockPong(current)
    \/ \E current \in BOOLEAN : SockError(current)
    \/ \E current \in BOOLEAN : SockUnexpectedResponse(current)
    \/ \E current \in BOOLEAN : SockClose(current)
    \/ \E o \in BOOLEAN : FirePinger(o)
    \/ \E o \in BOOLEAN : FireAwaitPong(o)
    \/ FireReconnect

\* The connection's life, with the frames it carries.
MsgLifecycle ==
    \/ Construct
    \/ Connect
    \/ \E current \in BOOLEAN : SockOpen(current)
    \/ \E current \in BOOLEAN : SockMessage(current)
    \/ \E current \in BOOLEAN : SockClose(current)
    \/ FireReconnect

\* The heartbeat of a transport nobody calls after construction: the events
\* of its socket that touch the timers, and the timers.
Heartbeat ==
    \/ Construct
    \/ \E current \in BOOLEAN : SockOpen(current)
    \/ \E current \in BOOLEAN : SockPong(current)
    \/ \E current \in BOOLEAN : SockClose(current)
    \/ \E o \in BOOLEAN : FirePinger(o)
    \/ \E o \in BOOLEAN : FireAwaitPong(o)
    \/ FireReconnect

\* The heartbeat, and the caller's close().
Recovery ==
    \/ Heartbeat
    \/ Close

\* A transport at rest, under the processor.
TIdle == TInit /\ autoConnect /\ addressValid /\ ~maxRetries.finite

Init == TInit /\ PIdle
Next == Lifecycle
vars == <<tvars, pvars>>

\* The transport's lifecycle: the caller's operations, the socket's events
\* and the timers. The message handler changes nothing of the object, and
\* is explored with the frames under MsgSpec.
Spec == Init /\ [][Next]_vars
MsgSpec == Init /\ [][MsgLifecycle]_vars
HeartbeatSpec == Init /\ [][Heartbeat]_vars

\* The event loop runs every timer that is due, and the ws library emits
\* 'close' for every socket that is closing or has lost its connection.
RecoverySpec ==
    /\ Init
    /\ [][Recovery]_vars
    /\ WF_vars(\E current \in BOOLEAN : SockClose(current))
    /\ WF_vars(FireReconnect)

\* The playing-event processor over the session store.
ProcInit == TIdle /\ PInit
ProcSpec == ProcInit /\ [][PNext]_vars

\* matchesFilters over the filter lists and the sessions.
FilterInit == TIdle /\ FInit
FilterSpec == FilterInit /\ [][FNext]_vars

TypeOK ==
    /\ socket \in LiveStates \cup {"null", "CLOSED"}
    /\ LiveCount(Cur) <= MaxSockets
    /\ retries \in 0..RetriesCap

\* ------------------------------------------------------------------ claims
PendingNow(kind) == PendingOf(Cur, kind)
OpenOrConnecting ==
    (IF socket \in {"CONNECTING", "OPEN"} THEN 1 ELSE 0)
      + leaked["CONNECTING"] + leaked["OPEN"]
ConnectOps == {"constructor", "connect", "reconnect"}

\* C1: every close event of a socket, when close() has not been called, arms
\* exactly one reconnect timer with the delay reconnectInterval and emits no
\* `close`; when close() has been called it arms none and emits `close` once.
C1_CloseEventReconnect ==
    [][op' = "onClose" =>
         IF ~shouldClose
         THEN /\ orphans'["reconnect"] = orphans["reconnect"] + 1
              /\ Count(out', "setTimeout:reconnect") = 1
              /\ \A i \in 1..Len(out') :
                    out'[i].k = "setTimeout:reconnect" => out'[i].n = reconnectInterval
              /\ ~Has(out', "emit:close")
         ELSE /\ orphans'["reconnect"] = orphans["reconnect"]
              /\ ~Has(out', "setTimeout:reconnect")
              /\ Count(out', "emit:close") = 1]_vars

\* C1 witness: an intentional close event (`close` emitted) while the
\* reconnect armed by an earlier unintentional close event is still pending.
C1_Witness ==
    /\ op = "onClose"
    /\ shouldClose
    /\ Has(out, "emit:close")
    /\ orphans["reconnect"] = 1

\* C2 (as claimed): once close() has been called, a firing pinger or awaitPong
\* timer does nothing: no ping, no `pong-timeout`, no terminate, no failure.
C2_TimersDeadAfterClose ==
    (shouldClose /\ op \in {"pinger", "awaitPong"}) => out = <<>>

\* C3 (as claimed): at most one pinger timer and at most one awaitPong timer
\* are pending, and never one of each at the same time.
C3_TimersExclusive ==
    /\ PendingNow("pinger") <= 1
    /\ PendingNow("awaitPong") <= 1
    /\ ~(PendingNow("pinger") > 0 /\ PendingNow("awaitPong") > 0)

\* C4 (as claimed): when the close handler has run, no heartbeat timer is
\* left pending.
C4_NoHeartbeatTimerAfterClose ==
    op = "onClose" => (PendingNow("pinger") = 0 /\ PendingNow("awaitPong") = 0)

\* C5 (as claimed): at most one socket is connecting or open at any time.
C5_OneLiveSocket == OpenOrConnecting <= 1

\* C6 (as claimed): nothing throws but connect() on a failed socket
\* construction. (The throw of an `error` emitted with no listener is left
\* out of the statement: whether somebody listens is the caller's doing.)
C6_NoThrow ==
    \A i \in 1..Len(out) :
       out[i].k \in Throws =>
          \/ out[i].k = "throw:Error" /\ op \in ConnectOps
          \/ out[i].k = "throw:unhandled-error"

\* C7 (as claimed, its first sentence): a frame that fails to parse yields
\* `error` and neither `message`, `notification` nor `playing`.
C7_ParseFailureDrops ==
    (op = "onMessage" /\ ~frame.wellFormed) =>
       /\ Has(out, "emit:error")
       /\ ~Has(out, "emit:message")
       /\ ~Has(out, "emit:notification")
       /\ ~Has(out, "emit:playing")

\* The playing emits of the last handler, in order, as <<state, entry>>.
PlayingArgs ==
    LET idx == {i \in 1..Len(args) : args[i].k = "emit:playing"}
        RECURSIVE From(_)
        From(i) == IF i > Len(args) THEN <<>>
                   ELSE IF i \in idx THEN <<<<args[i].state, args[i].entry>>>> \o From(i + 1)
                   ELSE From(i + 1)
    IN From(1)

IsPlayingFrame(f) ==
    /\ f.wellFormed
    /\ f.value.t = "obj" /\ f.value.hasNC /\ ~f.value.ncNull
    /\ f.value.nc.type = "playing"

\* C8: a notification of type `playing` whose list is absent or empty yields
\* exactly one `error` and no `playing`; otherwise one `playing(state, entry)`
\* per entry, in the order of the list, and no `error`.
C8_PlayingDispatch ==
    (op = "onMessage" /\ IsPlayingFrame(frame)) =>
       LET c == frame.value.nc IN
       IF ~c.hasList \/ c.list = <<>>
       THEN Count(out, "emit:error") = 1 /\ PlayingArgs = <<>>
       ELSE /\ PlayingArgs = [i \in 1..Len(c.list) |-> <<c.list[i].state, c.list[i]>>]
            /\ ~Has(out, "emit:error")

\* C8 witness: a playing notification of two entries, in the order stopped,
\* playing, turned into two `playing` events.
C8_Witness ==
    /\ op = "onMessage"
    /\ IsPlayingFrame(frame)
    /\ frame.value.nc.list = <<Entry2, Entry1>>
    /\ PlayingArgs = <<<<"stopped", Entry2>>, <<"playing", Entry1>>>>

\* C9: when the session a fetch resolves with has prevState equal to the
\* event's state, the processor sends nothing downstream, whatever the
\* filters say and however the fetches of the session's events overlap.
C9_NoEmissionWhenStateUnchanged ==
    (/\ pop = "settled"
     /\ resolved.outcome = "session"
     /\ StrictEquals(resolved.session.prevState, resolved.event.state))
       => ~Has(pout, "send")

\* C9 witness: such an event settles while another fetch for the same
\* session is still in flight, under filters that all match the session.
C9_Witness ==
    /\ pop = "settled"
    /\ resolved.outcome = "session"
    /\ StrictEquals(resolved.session.prevState, resolved.event.state)
    /\ filters # <<>>
    /\ matchesFilters(resolved.session, filters) = [threw |-> FALSE, match |-> TRUE]
    /\ \E e \in PlayingEvents :
          e.sessionKey = resolved.event.sessionKey /\ pending[e] > 0
    /\ pout = <<>>

\* C10 (as claimed): once a `stopped` event whose fetch succeeded has been
\* processed, the store holds no session for its sessionKey, however the
\* filter evaluation ended.
C10_StoppedDeletesSession ==
    (/\ pop = "settled"
     /\ resolved.outcome \in {"session", "null"}
     /\ StrictEquals(resolved.event.state, STOPPED))
       => ~store[resolved.event.sessionKey].present

\* C11 (as claimed): once an event whose fetch resolved with a session has
\* been handled, the session's prevState is the event's state: set to it when
\* it differed, left as it was when it did not; a fetch that resolved with no
\* session changes no prevState.
C11_PrevStateFollowsState ==
    /\ (pop = "settled" /\ resolved.outcome = "session")
          => StrictEquals(resolved.after.prevState, resolved.event.state)
    /\ (pop = "settled" /\ resolved.outcome = "null")
          => resolved.after = NoSession

\* C12: a rejected fetch yields exactly one warning and nothing else: no
\* downstream message, no change to the store (no prevState set, nothing
\* deleted), and no new fetch (the event's fetch is settled, the others in
\* flight stay as they were); the filters later events meet are unchanged.
C12_FetchFailureWarnsOnly ==
    [][(pop' = "settled" /\ resolved'.outcome = "rejected") =>
          /\ pout' = <<PEff("warn", resolved'.event.sessionKey)>>
          /\ store' = store
          /\ pending' = [pending EXCEPT ![resolved'.event] = @ - 1]
          /\ filters' = filters]_vars

\* C12 witness: the fetch of an event is rejected while the store holds the
\* event's session with a prevState, and another fetch is in flight.
C12_Witness ==
    /\ pop = "settled"
    /\ resolved.outcome = "rejected"
    /\ pout = <<PEff("warn", resolved.event.sessionKey)>>
    /\ store[resolved.event.sessionKey].present
    /\ store[resolved.event.sessionKey].prevState = PLAYING
    /\ \E e \in PlayingEvents : pending[e] > 0

\* A proper prefix of the filter's path leads to no value in the session: an
\* intermediate component of the path is missing.
MissingIntermediate(session, filter) ==
    LET parts == Split(filter.key) IN
    \E i \in 1..(Len(parts) - 1) :
       LET w == WalkPath(session, [v |-> Obj, path |-> <<>>], SubSeq(parts, 1, i), 1)
       IN ~w.threw /\ w.v.t = "undef"

\* C13 (as claimed): when a filter's path has a missing intermediate component
\* in the resolved session, the evaluation is no error: nothing is reported,
\* and the event is deduplicated, its state becoming the session's prevState.
C13_MissingPathIsNoError ==
    (/\ pop = "settled"
     /\ resolved.outcome = "session"
     /\ ~StrictEquals(resolved.session.prevState, resolved.event.state)
     /\ \E i \in 1..Len(filters) : MissingIntermediate(resolved.session, filters[i]))
       => /\ ~Has(pout, "warn")
          /\ StrictEquals(resolved.after.prevState, resolved.event.state)

\* How two values of one coerced type stand to each other: "lt", "eq", "gt",
\* or "none" when one of them is NaN. Strings by their characters, booleans
\* as false before true.
OrderOf(a, b) ==
    CASE a.t = "str" /\ b.t = "str" ->
           (IF a.s = b.s THEN "eq" ELSE IF StrLess(a.s, b.s) THEN "lt" ELSE "gt")
      [] a.t = "bool" /\ b.t = "bool" ->
           (IF a.b = b.b THEN "eq" ELSE IF b.b THEN "lt" ELSE "gt")
      [] a.t = "num" /\ b.t = "num" ->
           (IF a.n = b.n THEN "eq" ELSE IF a.n < b.n THEN "lt" ELSE "gt")
      [] OTHER -> "none"

\* Whether the operator holds of two values standing so.
OperatorHolds(operator, order) ==
    CASE operator = "eq" -> order = "eq"
      [] operator = "neq" -> order # "eq"
      [] operator = "lt" -> order = "lt"
      [] operator = "lte" -> order \in {"lt", "eq"}
      [] operator = "gt" -> order = "gt"
      [] operator = "gte" -> order \in {"gt", "eq"}
      [] OTHER -> FALSE

\* The filter's comparison holds of the session: its path resolves, and the
\* coerced literal, on the left, stands to the coerced session value as the
\* operator says.
ComparisonHolds(session, filter) ==
    LET w == WalkPath(session, [v |-> Obj, path |-> <<>>], Split(filter.key), 1)
    IN /\ ~w.threw
       /\ OperatorHolds(filter.operator,
                        OrderOf(Coerce(filter.valueType, filter.value),
                                Coerce(filter.valueType, w.v)))

NonNumeric(v) ==
    \/ v.t \in {"undef", "null", "bool"}
    \/ v.t = "str" /\ (v.s = <<>> \/ StringToNumber(v.s).t = "nan")

\* C15 (as claimed): a `num` filter with a numeric literal, evaluated on its
\* own against a session value that is no number, holds for neq and for no
\* other operator.
C15_NonNumericNeverCompares ==
    (/\ evaluated.called
     /\ Len(filters) = 1
     /\ filters[1].valueType = "num"
     /\ JsNumber(filters[1].value).t = "num"
     /\ LET w == WalkPath(evaluated.session, [v |-> Obj, path |-> <<>>],
                          Split(filters[1].key), 1)
        IN ~w.threw /\ NonNumeric(w.v))
       => evaluated.match = (filters[1].operator = "neq")

\* connect() has just run: by the caller, by a reconnect timer, or by the
\* constructor under autoConnect.
ConnectRan == op \in {"connect", "reconnect"} \/ (op = "constructor" /\ autoConnect)

\* C16 (as claimed): under a finite reconnectMaxRetries, connect() emits
\* `reconnect-max-retries` exactly when the counter it has incremented has
\* reached the maximum, and goes on to open a socket either way (or fails on
\* the socket's construction).
C16_MaxRetriesAtNthConnect ==
    (ConnectRan /\ maxRetries.finite) =>
       /\ Has(out, "emit:reconnect-max-retries") <=> retries >= maxRetries.n
       /\ Has(out, "new WebSocket") \/ Has(out, "throw:Error")

\* C17 (as claimed): at every open event of the socket this.socket refers
\* to, the retry counter becomes zero, `open` is emitted, and a ping is sent
\* with the pong-timeout timer armed.
C17_OpenStartsHeartbeat ==
    [][(op' = "onOpen" /\ socket = "CONNECTING" /\ socket' = "OPEN") =>
          /\ retries' = 0
          /\ Has(out', "emit:open")
          /\ Has(out', "ws.ping")
          /\ Has(out', "setTimeout:awaitPong")
          /\ awaitPong' = "pending"]_vars

C19_NoReconnectAfterClose ==
    ~(shouldClose /\ op = "reconnect" /\ Has(out, "new WebSocket"))

\* C20: shouldClose starts false, is true after close(), and never becomes
\* false again; while it is true the transport is not ready, and no handler
\* sends a ping, answers a ping with a pong, or arms a reconnect timer.
C20_ShouldCloseMonotonic ==
    /\ ~shouldClose
    /\ [][op' = "close" => shouldClose']_vars
    /\ [][shouldClose => shouldClose']_vars
    /\ [](shouldClose =>
            /\ ~isReady(Cur)
            /\ ~Has(out, "ws.ping")
            /\ ~Has(out, "ws.pong")
            /\ ~Has(out, "setTimeout:reconnect"))

\* C20 witness: after close() and a connect() by the caller, the new socket is
\* open and the server's ping has just gone unanswered.
C20_Witness ==
    /\ shouldClose
    /\ op = "onPing"
    /\ socket = "OPEN"
    /\ out = <<>>

====
